---- MODULE Spec2Model ----
(***************************************************************************)
(* Model of datasette/sqlite3_connector.py: the SQLite3_connector class    *)
(* (prepare_connection, inspect, execute, get_foreign_columns_and_rows)    *)
(* and the managed_errors decorator.                                       *)
(*                                                                         *)
(* All calls are synchronous and made from one thread of control, so the   *)
(* model has one program counter, pc.  execute is split at the points      *)
(* where the time-limit context manager is entered and left, so that the   *)
(* states in which the statement runs are visible.                         *)
(*                                                                         *)
(* Names of tables are sequences of segments: <<"docs", "_fts">> is the    *)
(* name docs_fts.  str.startswith is the prefix relation on them.          *)
(***************************************************************************)
EXTENDS Integers, Sequences, FiniteSets, TLC

VARIABLES
    db,                 \* the database file at self.path
    max_returned_rows,  \* self.max_returned_rows
    conn,               \* self.conn: 0 is None, otherwise an index of conns
    conns,              \* every connection opened so far, in order of opening
    pc,                 \* position of the thread of control
    frame,              \* the activation of execute
    fkframe,            \* the activation of get_foreign_columns_and_rows
    stdout,             \* lines printed by the call in progress or last made
    ret,                \* what the last call gave back to its caller
    hist                \* observations of past calls (history variable)

vars == <<db, max_returned_rows, conn, conns, pc, frame, fkframe, stdout, ret, hist>>

----------------------------------------------------------------------------
(* Bounds *)

MaxTables == 2      \* tables in an inspected database
MaxConns == 3       \* connections opened in one behaviour
MaxM == 2           \* largest max_returned_rows
MaxRows == 2        \* rows handed to get_foreign_columns_and_rows
MaxId == 2          \* values of a foreign-key column are 1..MaxId

MaxN == MaxM + 2    \* largest result of a query

----------------------------------------------------------------------------
(* Values *)

None == "None"

NoExc == [type |-> None, msg |-> ""]

Exc(t, m) == [type |-> t, msg |-> m]

\* Message sqlite3 attaches to an exception of each class.
ErrMsg(t) ==
    CASE t = "OperationalError" -> "no such module"
      [] t = "DatabaseError"    -> "database disk image is malformed"
      [] OTHER                  -> ""

\* Outcomes of a statement of inspect: it works, it fails with the
\* sqlite3.OperationalError the code names, or with another sqlite3 error.
ErrTypes == {None, "OperationalError", "DatabaseError"}

StartsWith(t, p) ==
    /\ Len(p) <= Len(t)
    /\ SubSeq(t, 1, Len(p)) = p

Range(s) == {s[i] : i \in DOMAIN s}

----------------------------------------------------------------------------
(* managed_errors *)

\* The decorator: an sqlite3.OperationalError leaves as DatasetteError(str(e)),
\* anything else leaves as it is.
managed_errors(r) ==
    IF r.exc.type = "OperationalError"
    THEN [r EXCEPT !.exc = Exc("DatasetteError", r.exc.msg)]
    ELSE r

----------------------------------------------------------------------------
(* inspect *)

\* 'select count(*) from t' inside try/except sqlite3.OperationalError.
\* A failure of another class is not caught.
count_propagate(t) ==
    IF t.countErr = None
    THEN [exc |-> NoExc, count |-> Len(t.rows)]
    ELSE [exc |-> Exc(t.countErr, ErrMsg(t.countErr)), count |-> 0]

count(t) ==
    CASE t.countErr = None ->
            [exc |-> NoExc, count |-> Len(t.rows)]
      [] t.countErr = "OperationalError" ->
            [exc |-> NoExc, count |-> 0]
      [] OTHER ->
            [exc |-> Exc(t.countErr, ErrMsg(t.countErr)), count |-> 0]

\* PRAGMA table_info rows with a non-zero pk, sorted by pk; their names.
primary_keys(t) ==
    LET pk == {i \in DOMAIN t.columns : t.columns[i].pk # 0}
    IN  [k \in 1..Cardinality(pk) |->
            LET i == CHOOSE j \in pk :
                        Cardinality({x \in pk : t.columns[x].pk < t.columns[j].pk}) = k - 1
            IN  t.columns[i].name]

column_names(t) == [i \in DOMAIN t.columns |-> t.columns[i].name]

label_column_any2(names) ==
    IF Len(names) = 2
    THEN LET others == SelectSeq(names, LAMBDA c : c # "id")
         IN  IF others = <<>> THEN None ELSE others[1]
    ELSE None

\* Two columns, one of which is id: the label column is the other one.
label_column(names) ==
    IF names # <<>> /\ Len(names) = 2 /\ "id" \in Range(names)
    THEN SelectSeq(names, LAMBDA c : c # "id")[1]
    ELSE None

SpatialiteTables == {
    <<"ElementaryGeometries">>, <<"SpatialIndex">>, <<"geometry_columns">>,
    <<"spatial_ref_sys">>, <<"spatialite_history">>, <<"sql_statements_log">>,
    <<"sqlite_sequence">>, <<"views_geometry_columns">>, <<"virts_geometry_columns">> }

\* Names in sqlite_master declared as FTS virtual tables, and the Spatialite
\* internal tables when detect_spatialite(conn) holds.
hidden_tables(d) ==
    {n \in DOMAIN d.tables : d.tables[n].fts}
        \cup (IF d.spatialite THEN SpatialiteTables ELSE {})

hidden_exact(t, hts) == \E h \in hts : t = h

hidden(t, hts) == \E h \in hts : t = h \/ StartsWith(t, h)

\* get_all_foreign_keys(conn): for every table its outgoing foreign keys.
get_all_foreign_keys(d) ==
    [n \in DOMAIN d.tables |-> [outgoing |-> d.tables[n].fks]]

TableMetadata(d, n) ==
    LET t == d.tables[n]
    IN  [name |-> n,
         columns |-> column_names(t),
         primary_keys |-> primary_keys(t),
         count |-> count(t).count,
         label_column |-> label_column(column_names(t)),
         hidden |-> hidden(n, hidden_tables(d)),
         foreign_keys |-> get_all_foreign_keys(d)[n]]

NoTables == [n \in {} |-> 0]

\* The body of inspect: the catalog queries, then the loop over the tables.
inspect_body(d) ==
    IF d.catalogErr # None
    THEN [exc |-> Exc(d.catalogErr, ErrMsg(d.catalogErr)),
          tables |-> NoTables, views |-> <<>>]
    ELSE IF \E n \in DOMAIN d.tables : count(d.tables[n]).exc # NoExc
    THEN [exc |-> count(d.tables[CHOOSE n \in DOMAIN d.tables :
                                    count(d.tables[n]).exc # NoExc]).exc,
          tables |-> NoTables, views |-> <<>>]
    ELSE [exc |-> NoExc,
          tables |-> [n \in DOMAIN d.tables |-> TableMetadata(d, n)],
          views |-> d.views]

inspect(d) == managed_errors(inspect_body(d))

----------------------------------------------------------------------------
(* Connections *)

\* sqlite3.connect: a new connection, open, with no progress handler.
\* guard is the time limit of the installed progress handler, 0 for none.
connect(cs, origin) ==
    Append(cs, [origin |-> origin, open |-> TRUE, guard |-> 0])

\* Leaving 'with sqlite3.connect(...) as conn': the connection's __exit__
\* ends the transaction.  It does not close the connection.
connection_exit(cs, c) == cs

\* sqlite_timelimit(conn, ms), entered: the handler is installed.
timelimit_enter(cs, c, ms) == [cs EXCEPT ![c].guard = ms]

\* sqlite_timelimit(conn, ms), left, on every exit path: the handler is removed.
timelimit_exit(cs, c) == [cs EXCEPT ![c].guard = 0]

----------------------------------------------------------------------------
(* execute *)

DefaultTimeLimit == 1000

\* How long a statement of a caller runs, and the limits a caller passes.
\* A scan of a referenced table takes 10 or 5000.
Costs == {10, 500}
TimeLimits == {100, DefaultTimeLimit}

\* cursor.execute(sql, params or {}) on a connection whose progress handler
\* has limit g: a malformed statement fails when it is prepared, a statement
\* running past the limit is interrupted, a write that breaks a constraint
\* fails with IntegrityError.
cursor_execute(q, g) ==
    CASE q.kind = "malformed" ->
            Exc("OperationalError", "syntax error")
      [] q.kind # "malformed" /\ g # 0 /\ q.cost > g ->
            Exc("OperationalError", "interrupted")
      [] q.kind = "constraint" /\ ~(g # 0 /\ q.cost > g) ->
            Exc("IntegrityError", "UNIQUE constraint failed")
      [] OTHER -> NoExc

Prefix(s, n) == SubSeq(s, 1, IF n < Len(s) THEN n ELSE Len(s))

fetch_off_by_one(q, M, truncate) ==
    IF M # 0 /\ truncate
    THEN LET rows == Prefix(q.result, M + 1)
         IN  [fetched |-> Len(rows),
              truncated |-> Len(rows) >= M,
              rows |-> Prefix(rows, M)]
    ELSE [fetched |-> Len(q.result), truncated |-> FALSE, rows |-> q.result]

\* fetchmany(max_returned_rows + 1) and the cut to max_returned_rows, or
\* fetchall.
fetch(q, M, truncate) ==
    IF M # 0 /\ truncate
    THEN LET rows == Prefix(q.result, M + 1)
         IN  [fetched |-> Len(rows),
              truncated |-> Len(rows) > M,
              rows |-> Prefix(rows, M)]
    ELSE [fetched |-> Len(q.result), truncated |-> FALSE, rows |-> q.result]

\* The line execute prints when the statement fails.
Diagnostic(c, q, params, e) ==
    [conn |-> c, sql |-> q.text, params |-> params, msg |-> e.msg]

NoFrame ==
    [sql |-> [text |-> "", kind |-> "select", cost |-> 0, result |-> <<>>],
     params |-> {}, truncate |-> FALSE, time_limit_ms |-> 0, caller |-> "",
     conn |-> 0, exc |-> NoExc, fetched |-> 0, truncated |-> FALSE, rows |-> <<>>]

----------------------------------------------------------------------------
(* Databases and inputs *)

Col(n, k) == [name |-> n, pk |-> k]

Fk(c, t, oc) == [column |-> c, other_table |-> t, other_column |-> oc]

Table(cols, rows, err, fts, fks, cost) ==
    [columns |-> cols, rows |-> rows, countErr |-> err, fts |-> fts,
     fks |-> fks, cost |-> cost]

\* A library: books refer to authors and to publishers, reviews to authors.
books == <<"books">>
reviews == <<"reviews">>
authors == <<"authors">>
publishers == <<"publishers">>

LabelOf(t, i) == <<t[1], i>>

IdNameRows(t, ids) ==
    [i \in 1..ids |-> [id |-> i, name |-> LabelOf(t, i), city |-> "c"]]

LibraryDB(nauthors, acost, pcols, pcost, cerr) ==
    [tables |->
        (books :> Table(<<Col("id", 1), Col("title", 0), Col("author_id", 0),
                          Col("publisher_id", 0)>>,
                        <<>>, None, FALSE,
                        <<Fk("author_id", authors, "id"),
                          Fk("publisher_id", publishers, "id")>>, 10))
        @@ (reviews :> Table(<<Col("id", 1), Col("author_id", 0), Col("stars", 0)>>,
                             <<>>, None, FALSE,
                             <<Fk("author_id", authors, "id")>>, 10))
        @@ (authors :> Table(<<Col("id", 1), Col("name", 0)>>,
                             IdNameRows(authors, nauthors), None, FALSE, <<>>, acost))
        @@ (publishers :> Table(pcols, IdNameRows(publishers, MaxId),
                                None, FALSE, <<>>, pcost)),
     views |-> <<"recent_books">>,
     spatialite |-> FALSE,
     catalogErr |-> cerr]

LibraryDBs ==
    {LibraryDB(na, ac, pcols, pcst, cerr) :
        na \in {1, MaxId}, ac \in {10, 5000},
        pcols \in {<<Col("id", 1), Col("name", 0)>>,
                   <<Col("id", 1), Col("name", 0), Col("city", 0)>>},
        pcst \in {10, 5000}, cerr \in ErrTypes}

\* Databases to inspect: up to MaxTables tables under names that are, start
\* with, or are a proper prefix of the name of a table that can be an FTS
\* virtual table or of a Spatialite internal table; each with any of the
\* column declarations, and a count(*) that works or fails.
docs == <<"docs">>
docs_fts == <<"docs", "_fts">>
docs_fts_content == <<"docs", "_fts", "_content">>
geometry_columns == <<"geometry_columns">>
geometry_columns_auth == <<"geometry_columns", "_auth">>

Names == {docs, docs_fts, docs_fts_content, geometry_columns, geometry_columns_auth}

FtsNames == {docs, docs_fts}

ColumnLists ==
    {<<Col("id", 1), Col("name", 0)>>,
     <<Col("title", 0), Col("id", 1)>>,
     <<Col("id", 1), Col("name", 0), Col("extra", 0)>>,
     <<Col("a", 2), Col("b", 1)>>,
     <<Col("id", 0)>>}

\* A table under name n holds Len(n) rows.
RowsOf(n, cols) == [i \in 1..Len(n) |-> [c \in {cols[j].name : j \in DOMAIN cols} |-> i]]

\* The database with the tables named in S, declared by cols, failing
\* to count as err says, those in F being FTS virtual tables.
InspectDB(S, cols, err, F, sp) ==
    [tables |-> [n \in S |-> Table(cols[n], RowsOf(n, cols[n]), err[n], n \in F, <<>>, 10)],
     views |-> <<>>,
     spatialite |-> sp,
     catalogErr |-> None]

\* Statements a caller hands to execute: what they return, how long they
\* run, whether they are well formed.
Queries ==
    {[text |-> "select", kind |-> "select", cost |-> c, result |-> [i \in 1..n |-> <<i>>]] :
        c \in Costs, n \in 0..MaxN}
    \cup {[text |-> "selec", kind |-> "malformed", cost |-> 10, result |-> <<>>]}
    \cup {[text |-> "insert", kind |-> "constraint", cost |-> 10, result |-> <<>>]}

RECURSIVE ListOf(_)
\* A list of the elements of the set X.
ListOf(X) ==
    IF X = {}
    THEN <<>>
    ELSE LET x == CHOOSE y \in X : TRUE
         IN  <<x>> \o ListOf(X \ {x})

\* Rows of a table handed to get_foreign_columns_and_rows: the values of
\* its foreign-key columns.  The rows are read only through the set of the
\* values of a column, so one list for each set of rows is drawn.
RowInputs(d, t) ==
    LET fks == d.tables[t].fks
        row == [{fks[i].column : i \in DOMAIN fks} -> 1..MaxId]
    IN  IF fks = <<>>
        THEN {<<>>}
        ELSE {ListOf(X) : X \in {Y \in SUBSET row : Cardinality(Y) <= MaxRows}}

NoRet == [op |-> "", exc |-> NoExc, value |-> <<>>]

NoFkFrame ==
    [table |-> <<>>, rows |-> <<>>, tables_info |-> NoTables, todo |-> <<>>,
     fks |-> <<>>, labeled_fks |-> <<>>]

\* timedOut: an execute on the connection self.conn was interrupted.
\* owned: the connection the owner of the connector last prepared, 0 for none.
NoHist == [timedOut |-> FALSE, owned |-> 0]

\* After __init__: self.conn is None, nothing has been opened.
InitConnector ==
    /\ max_returned_rows \in 0..MaxM
    /\ conn = 0
    /\ conns = <<>>
    /\ pc = "idle"
    /\ frame = NoFrame
    /\ fkframe = NoFkFrame
    /\ stdout = <<>>
    /\ ret = NoRet
    /\ hist = NoHist

\* The connector over a library, with any cap on the returned rows.
Init ==
    /\ db \in {LibraryDB(MaxId, 10, <<Col("id", 1), Col("name", 0)>>, 10, cerr) :
                    cerr \in ErrTypes}
    /\ InitConnector

\* The connector over any of the libraries.
InitFK ==
    /\ db \in LibraryDBs
    /\ InitConnector
    /\ max_returned_rows = MaxM

----------------------------------------------------------------------------
(* prepare_connection *)

\* The last line of prepare_connection: self.conn = conn.  The connector is
\* built with no functions, no extensions and no plugin manager, so the
\* lines before it act on the handle alone.
prepare_connection(c) == conn' = c

\* The owner of the connector opens a connection and prepares it.
PrepareConnection ==
    /\ pc = "idle"
    /\ Len(conns) < MaxConns
    /\ conns' = connect(conns, "caller")
    /\ prepare_connection(Len(conns) + 1)
    /\ ret' = [NoRet EXCEPT !.op = "prepare_connection"]
    /\ stdout' = <<>>
    /\ frame' = NoFrame
    /\ fkframe' = NoFkFrame
    /\ hist' = [timedOut |-> FALSE, owned |-> Len(conns) + 1]
    /\ UNCHANGED <<db, max_returned_rows, pc>>

\* What a call of inspect does to the connections: it opens one, prepares
\* it, and leaves the with block.
inspect_connection ==
    /\ conns' = connection_exit(connect(conns, "inspect"), Len(conns) + 1)
    /\ prepare_connection(Len(conns) + 1)

Inspect ==
    /\ pc = "idle"
    /\ Len(conns) < MaxConns
    /\ inspect_connection
    /\ ret' = [op |-> "inspect", exc |-> inspect(db).exc,
               value |-> [tables |-> inspect(db).tables, views |-> inspect(db).views]]
    /\ stdout' = <<>>
    /\ frame' = NoFrame
    /\ fkframe' = NoFkFrame
    /\ hist' = [hist EXCEPT !.timedOut = FALSE]
    /\ UNCHANGED <<db, max_returned_rows, pc>>

----------------------------------------------------------------------------
(* execute, step by step *)

\* Entering 'with sqlite_timelimit(self.conn, time_limit_ms)'.
enter_execute_unguarded(q, params, truncate, ms, caller) ==
    /\ frame' = [NoFrame EXCEPT !.sql = q, !.params = params, !.truncate = truncate,
                                !.time_limit_ms = ms, !.caller = caller, !.conn = conn]
    /\ conns' = conns
    /\ pc' = "execute_body"

enter_execute(q, params, truncate, ms, caller) ==
    /\ frame' = [NoFrame EXCEPT !.sql = q, !.params = params, !.truncate = truncate,
                                !.time_limit_ms = ms, !.caller = caller, !.conn = conn]
    /\ conns' = timelimit_enter(conns, conn, ms)
    /\ pc' = "execute_body"

ExecuteCall ==
    /\ pc = "idle"
    /\ conn # 0
    /\ \E q \in Queries, truncate \in BOOLEAN, ms \in TimeLimits :
          enter_execute(q, {}, truncate, ms, "caller")
    /\ stdout' = <<>>
    /\ fkframe' = NoFkFrame
    /\ UNCHANGED <<db, max_returned_rows, conn, ret, hist>>

\* execute before any connection was prepared: self.conn is None, and the
\* first use of it raises AttributeError.
ExecuteNoConnection ==
    /\ pc = "idle"
    /\ conn = 0
    /\ ret' = [op |-> "execute",
               exc |-> Exc("AttributeError", "'NoneType' object has no attribute"),
               value |-> <<>>]
    /\ stdout' = <<>>
    /\ frame' = NoFrame
    /\ fkframe' = NoFkFrame
    /\ UNCHANGED <<db, max_returned_rows, conn, conns, pc, hist>>

\* The try block: the statement runs and its rows are fetched; on any
\* exception the diagnostic is printed and the exception raised again.
ExecuteBody ==
    /\ pc = "execute_body"
    /\ LET e == cursor_execute(frame.sql, conns[frame.conn].guard)
           f == fetch(frame.sql, max_returned_rows, frame.truncate)
       IN  IF e # NoExc
           THEN /\ frame' = [frame EXCEPT !.exc = e]
                /\ stdout' = Append(stdout, Diagnostic(frame.conn, frame.sql, frame.params, e))
                /\ hist' = [hist EXCEPT !.timedOut = @ \/ e.msg = "interrupted"]
           ELSE /\ frame' = [frame EXCEPT !.fetched = f.fetched, !.truncated = f.truncated,
                                          !.rows = f.rows]
                /\ UNCHANGED <<stdout, hist>>
    /\ pc' = "execute_exit"
    /\ UNCHANGED <<db, max_returned_rows, conn, conns, fkframe, ret>>

\* What execute returns: (rows, truncated, description) or rows alone.
\* cursor.description is not modelled.
execute_value(f) ==
    IF f.truncate
    THEN [rows |-> f.rows, truncated |-> f.truncated]
    ELSE [rows |-> f.rows]

\* The with block is left, managed_errors sees the exception, and control
\* is back in the caller.
ExecuteExit ==
    /\ pc = "execute_exit"
    /\ conns' = timelimit_exit(conns, frame.conn)
    /\ LET r == managed_errors(frame)
       IN  IF frame.caller = "caller"
           THEN /\ ret' = [op |-> "execute", exc |-> r.exc,
                           value |-> IF r.exc = NoExc THEN execute_value(r) ELSE <<>>]
                /\ pc' = "idle"
                /\ UNCHANGED frame
           ELSE /\ frame' = r
                /\ pc' = "fk_resume"
                /\ UNCHANGED ret
    /\ UNCHANGED <<db, max_returned_rows, conn, fkframe, stdout, hist>>

----------------------------------------------------------------------------
(* get_foreign_columns_and_rows, step by step *)

FkOp == "get_foreign_columns_and_rows"

\* tables_info.get(fk['other_table'], {}).get('label_column')
fk_label_column(tables_info, fk) ==
    IF fk.other_table \in DOMAIN tables_info
    THEN tables_info[fk.other_table].label_column
    ELSE None

ids_to_lookup_first(rows, fk) ==
    IF rows = <<>> THEN {} ELSE {rows[1][fk.column]}

\* set([row[fk['column']] for row in rows])
ids_to_lookup(rows, fk) == {rows[i][fk.column] : i \in DOMAIN rows}

\* The batched statement and what it returns: the (other_column,
\* label_column) pairs of the referenced rows whose other_column is among ids.
lookup_query(d, fk, label, ids) ==
    LET t == d.tables[fk.other_table]
        hit == SelectSeq(t.rows, LAMBDA r : r[fk.other_column] \in ids)
    IN  [text |-> "select_in",
         kind |-> "select",
         cost |-> t.cost,
         result |-> [i \in DOMAIN hit |-> <<hit[i][fk.other_column], hit[i][label]>>]]

\* except sqlite3.OperationalError: pass
lookup_caught(e) == e.type = "OperationalError"

RECURSIVE record_labels(_, _, _)
\* for id, value in results: labeled_fks[(fk['column'], id)] = (fk['other_table'], value)
record_labels(labeled, fk, results) ==
    IF results = <<>>
    THEN labeled
    ELSE record_labels(
            (<<fk.column, results[1][1]>> :> <<fk.other_table, results[1][2]>>) @@ labeled,
            fk, Tail(results))

\* The call, up to the loop: inspect() and the table's outgoing foreign keys.
FKCall ==
    /\ pc = "idle"
    /\ Len(conns) < MaxConns
    /\ inspect_connection
    /\ stdout' = <<>>
    /\ LET r == inspect(db)
       IN  IF r.exc # NoExc
           THEN /\ ret' = [op |-> FkOp, exc |-> r.exc, value |-> <<>>]
                /\ pc' = "idle"
                /\ \E t \in DOMAIN db.tables : \E rows \in RowInputs(db, t) :
                        fkframe' = [NoFkFrame EXCEPT !.table = t, !.rows = rows]
           ELSE /\ UNCHANGED ret
                /\ pc' = "fk_loop"
                /\ \E t \in DOMAIN db.tables : \E rows \in RowInputs(db, t) :
                        fkframe' = [table |-> t, rows |-> rows, tables_info |-> r.tables,
                                    todo |-> r.tables[t].foreign_keys.outgoing,
                                    fks |-> <<>>, labeled_fks |-> <<>>]
    /\ frame' = NoFrame
    /\ hist' = [hist EXCEPT !.timedOut = FALSE]
    /\ UNCHANGED <<db, max_returned_rows>>

\* The loop is over: return fks, labeled_fks.
FKReturn ==
    /\ pc = "fk_loop"
    /\ fkframe.todo = <<>>
    /\ ret' = [op |-> FkOp, exc |-> NoExc,
               value |-> [fks |-> fkframe.fks, labeled_fks |-> fkframe.labeled_fks]]
    /\ pc' = "idle"
    /\ UNCHANGED <<db, max_returned_rows, conn, conns, frame, fkframe, stdout, hist>>

\* A foreign key whose table has no label column.
FKNoLabel ==
    /\ pc = "fk_loop"
    /\ fkframe.todo # <<>>
    /\ LET fk == Head(fkframe.todo)
       IN  /\ fk_label_column(fkframe.tables_info, fk) = None
           /\ fkframe' = [fkframe EXCEPT !.fks = (fk.column :> fk.other_table) @@ @,
                                         !.todo = Tail(@)]
    /\ UNCHANGED <<db, max_returned_rows, conn, conns, pc, frame, stdout, ret, hist>>

\* A foreign key whose table has a label column: self.execute(sql, ids).
FKLookup ==
    /\ pc = "fk_loop"
    /\ fkframe.todo # <<>>
    /\ LET fk == Head(fkframe.todo)
           label == fk_label_column(fkframe.tables_info, fk)
           ids == ids_to_lookup(fkframe.rows, fk)
       IN  /\ label # None
           /\ enter_execute(lookup_query(db, fk, label, ids), ids, FALSE,
                            DefaultTimeLimit, "fk")
    /\ UNCHANGED <<db, max_returned_rows, conn, fkframe, stdout, ret, hist>>

\* Back from self.execute: the except clause, or the else clause.
FKResume ==
    /\ pc = "fk_resume"
    /\ LET fk == Head(fkframe.todo)
       IN  IF frame.exc # NoExc /\ ~lookup_caught(frame.exc)
           THEN /\ ret' = [op |-> FkOp, exc |-> frame.exc, value |-> <<>>]
                /\ pc' = "idle"
                /\ UNCHANGED fkframe
           ELSE /\ fkframe' = [fkframe EXCEPT
                        !.labeled_fks = IF frame.exc # NoExc THEN @
                                        ELSE record_labels(@, fk, frame.rows),
                        !.todo = Tail(@)]
                /\ pc' = "fk_loop"
                /\ UNCHANGED ret
    /\ UNCHANGED <<db, max_returned_rows, conn, conns, frame, stdout, hist>>

----------------------------------------------------------------------------

\* The connector over any of the databases to inspect.
InitInspect ==
    /\ \E S \in {T \in SUBSET Names : Cardinality(T) <= MaxTables} :
        \E cols \in [S -> ColumnLists], err \in [S -> ErrTypes],
           F \in SUBSET (S \cap FtsNames), sp \in BOOLEAN :
            db = InspectDB(S, cols, err, F, sp)
    /\ InitConnector
    /\ max_returned_rows = MaxM

\* Calls of inspect.
NextInspect == Inspect

SpecInspect == InitInspect /\ [][NextInspect]_vars

\* Calls of prepare_connection, inspect and execute.
Next ==
    \/ PrepareConnection
    \/ Inspect
    \/ ExecuteCall
    \/ ExecuteNoConnection
    \/ ExecuteBody
    \/ ExecuteExit

Spec == Init /\ [][Next]_vars

\* Calls of get_foreign_columns_and_rows, and the calls of execute it makes.
NextFK ==
    \/ FKCall
    \/ FKReturn
    \/ FKNoLabel
    \/ FKLookup
    \/ ExecuteBody
    \/ ExecuteExit
    \/ FKResume

SpecFK == InitFK /\ [][NextFK]_vars

----------------------------------------------------------------------------
(* Claims about inspect, checked under SpecInspect *)

InspectReturned == ret.op = "inspect" /\ ret.exc = NoExc

DeclaredNames(n) == [i \in DOMAIN db.tables[n].columns |-> db.tables[n].columns[i].name]

\* The label column the declaration of table n calls for.
ExpectedLabel(d, n) ==
    LET cols == d.tables[n].columns
    IN  CASE Len(cols) = 2 /\ cols[1].name = "id" -> cols[2].name
          [] Len(cols) = 2 /\ cols[1].name # "id" /\ cols[2].name = "id" -> cols[1].name
          [] OTHER -> None

\* C9: every table inspect returns has a label_column exactly when it has
\* exactly two columns one of which is named id, and it is then the name
\* of the other column; otherwise label_column is absent.
C9_LabelColumn ==
    InspectReturned =>
        \A n \in DOMAIN ret.value.tables :
            ret.value.tables[n].label_column = ExpectedLabel(db, n)

C9_Witness ==
    /\ InspectReturned
    /\ \E n, m \in DOMAIN ret.value.tables :
        /\ DeclaredNames(n) = <<"title", "id">>
        /\ ret.value.tables[n].label_column = "title"
        /\ DeclaredNames(m) = <<"a", "b">>
        /\ ret.value.tables[m].label_column = None

FtsTables == {n \in DOMAIN db.tables : db.tables[n].fts}

\* C7, as claimed: hidden holds exactly of the tables whose name is or
\* starts with the name of an FTS virtual table, and, in a Spatialite
\* database, of the tables whose name is one of the internal names.
C7_HiddenAsClaimed ==
    InspectReturned =>
        \A n \in DOMAIN ret.value.tables :
            ret.value.tables[n].hidden <=>
                \/ \E f \in FtsTables : n = f \/ StartsWith(n, f)
                \/ db.spatialite /\ n \in SpatialiteTables

\* C7, amended: in a Spatialite database the tables whose name starts with
\* one of the internal names are hidden too.
C7_Hidden ==
    InspectReturned =>
        \A n \in DOMAIN ret.value.tables :
            ret.value.tables[n].hidden <=>
                \/ \E f \in FtsTables : n = f \/ StartsWith(n, f)
                \/ db.spatialite /\ \E h \in SpatialiteTables : n = h \/ StartsWith(n, h)

C7_Witness ==
    /\ InspectReturned
    /\ db.spatialite
    /\ DOMAIN ret.value.tables = {docs, geometry_columns_auth}
    /\ ~db.tables[docs].fts
    /\ ret.value.tables[geometry_columns_auth].hidden
    /\ ~ret.value.tables[docs].hidden

CountFailed(n) == db.tables[n].countErr # None

\* The database with every count(*) working.
Healthy(d) ==
    [d EXCEPT !.tables = [n \in DOMAIN d.tables |-> [d.tables[n] EXCEPT !.countErr = None]]]

\* What inspect gives for a database whose tables that fail to count are
\* reported with count 0 and are otherwise as if the count had worked.
CountsAbsorbed ==
    /\ ret.exc = NoExc
    /\ DOMAIN ret.value.tables = DOMAIN db.tables
    /\ \A n \in DOMAIN db.tables :
        /\ ret.value.tables[n].count = IF CountFailed(n) THEN 0 ELSE Len(db.tables[n].rows)
        /\ ret.value.tables[n].columns = DeclaredNames(n)
        /\ ret.value.tables[n].label_column = ExpectedLabel(db, n)
        /\ [ret.value.tables[n] EXCEPT !.count = 0]
             = [inspect(Healthy(db)).tables[n] EXCEPT !.count = 0]

----------------------------------------------------------------------------
(* Claims about execute and the connections, checked under Spec *)

\* A call of execute by the caller has come back.
ExecuteDone == pc = "idle" /\ ret.op = "execute" /\ frame.caller = "caller"

Min(a, b) == IF a < b THEN a ELSE b

\* C3: with truncate and a cap M > 0, a query of N rows has at most M + 1
\* rows fetched, gives back its first min(N, M) rows in order, and
\* truncated exactly when N > M; without truncate it gives back all N rows.
C3_Truncation ==
    (ExecuteDone /\ ret.exc = NoExc) =>
        LET N == Len(frame.sql.result)
            M == max_returned_rows
        IN  /\ (frame.truncate /\ M > 0) =>
                /\ frame.fetched <= M + 1
                /\ ret.value.rows = [i \in 1..Min(N, M) |-> frame.sql.result[i]]
                /\ ret.value.truncated <=> (N > M)
            /\ ~frame.truncate => ret.value.rows = frame.sql.result

C3_Witness ==
    /\ ExecuteDone /\ ret.exc = NoExc
    /\ frame.truncate
    /\ max_returned_rows > 0
    /\ Len(frame.sql.result) = max_returned_rows + 1
    /\ Len(ret.value.rows) = max_returned_rows
    /\ ret.value.truncated

\* C2: while the statement of an execute runs, the time limit of that call
\* is installed on the connection; once execute is left, by return or by
\* exception, no connection has a limit installed; and a statement that
\* runs within its limit succeeds whatever happened on the connection before.
C2_GuardScoped ==
    /\ pc = "execute_body" =>
            /\ frame.conn = conn
            /\ conns[conn].guard = frame.time_limit_ms
    /\ pc = "idle" => \A c \in DOMAIN conns : conns[c].guard = 0
    /\ (ExecuteDone /\ frame.sql.kind = "select"
            /\ frame.sql.cost <= frame.time_limit_ms) => ret.exc = NoExc

C2_Witness ==
    /\ ExecuteDone
    /\ hist.timedOut
    /\ ret.exc = NoExc
    /\ frame.sql.cost <= frame.time_limit_ms
    /\ conns[conn].guard = 0

\* C5: whenever the statement of an execute fails, the caller receives
\* DatasetteError with the message of the failure, and the diagnostic with
\* the connection, the statement and the parameters has been printed.
C5_DomainError ==
    (ExecuteDone /\ frame.exc # NoExc) =>
        /\ ret.exc = Exc("DatasetteError", frame.exc.msg)
        /\ \E i \in DOMAIN stdout :
            /\ stdout[i].conn = frame.conn
            /\ stdout[i].sql = frame.sql.text
            /\ stdout[i].params = frame.params

\* C4: once the owner of the connector has prepared its connection, execute
\* runs its statements on that connection, whatever calls of inspect were
\* made since: inspect does not change the connection execute uses.
C4_OwnConnection ==
    (pc = "execute_body" /\ hist.owned # 0) => frame.conn = hist.owned

\* C10: once inspect is left, by return or by exception, no connection
\* opened by inspect is open.
C10_SnapshotClosed ==
    pc = "idle" =>
        \A c \in DOMAIN conns : conns[c].origin = "inspect" => ~conns[c].open

----------------------------------------------------------------------------
(* Claims about get_foreign_columns_and_rows, checked under SpecFK *)

\* A call of get_foreign_columns_and_rows has come back, and its call of
\* inspect had worked.
FKDone == pc = "idle" /\ ret.op = FkOp /\ fkframe.tables_info # NoTables

FKReturned == FKDone /\ ret.exc = NoExc

\* The foreign keys of the table of the call whose table has a label column.
LabeledFks ==
    LET fks == db.tables[fkframe.table].fks
    IN  {fks[i] : i \in {j \in DOMAIN fks : ExpectedLabel(db, fks[j].other_table) # None}}

\* The values of fk's column in the rows of the call.
ValuesIn(fk) == {fkframe.rows[i][fk.column] : i \in DOMAIN fkframe.rows}

\* The rows of the table fk refers to whose other_column is v.
Referenced(fk, v) ==
    {r \in Range(db.tables[fk.other_table].rows) : r[fk.other_column] = v}

\* The entries of labeled_fks under fk's column are those of the values in
\* vals, each with the table and the label of the row it refers to.
LabeledExactly(fk, vals) ==
    LET L == ret.value.labeled_fks
    IN  /\ \A v \in vals :
            /\ <<fk.column, v>> \in DOMAIN L
            /\ \E r \in Referenced(fk, v) :
                    L[<<fk.column, v>>] =
                        <<fk.other_table, r[ExpectedLabel(db, fk.other_table)]>>
        /\ \A k \in DOMAIN L : k[1] = fk.column => k[2] \in vals
        /\ fk.column \notin DOMAIN ret.value.fks

\* The batched lookup of fk runs past the time limit of execute.
LookupFails(fk) == db.tables[fk.other_table].cost > DefaultTimeLimit

\* C8, as claimed: for a table with one foreign key, to a table with a label
\* column, when the call returns, labeled_fks holds one entry for each
\* distinct value of the column in the rows, with the label of the
\* referenced row, and nothing else; fks has no entry for the column.
C8_LabelsAsClaimed ==
    (FKReturned /\ Len(db.tables[fkframe.table].fks) = 1) =>
        \A fk \in LabeledFks : LabeledExactly(fk, ValuesIn(fk))

\* C8, amended: one entry for each distinct value of the column in the rows
\* that is the other_column of a row of the referenced table, and no entry
\* under any other column.
C8_Labels ==
    FKReturned =>
        /\ \A fk \in LabeledFks :
                LabeledExactly(fk, {v \in ValuesIn(fk) : Referenced(fk, v) # {}})
        /\ \A k \in DOMAIN ret.value.labeled_fks : \E fk \in LabeledFks : k[1] = fk.column

C8_Witness ==
    /\ FKReturned
    /\ fkframe.table = reviews
    /\ \E fk \in LabeledFks :
        /\ ValuesIn(fk) = {1, 2}
        /\ Referenced(fk, 2) = {}
        /\ DOMAIN ret.value.labeled_fks = {<<fk.column, 1>>}
        /\ ret.value.labeled_fks[<<fk.column, 1>>] = <<authors, LabelOf(authors, 1)>>

\* C1: a batched lookup that fails does not fail the call: the call returns,
\* with no entries for the foreign key whose lookup failed and with the
\* entries of every other foreign key as they would be.
C1_LookupFailureAbsorbed ==
    FKDone =>
        /\ ret.exc = NoExc
        /\ \A fk \in LabeledFks :
            IF LookupFails(fk)
            THEN \A k \in DOMAIN ret.value.labeled_fks : k[1] # fk.column
            ELSE LabeledExactly(fk, {v \in ValuesIn(fk) : Referenced(fk, v) # {}})

====
